---- MODULE Spec2Model ----
\* Foto Timeline Challenge: the game session of the two timeline components
\* (src/src/components/PhotoTimeline.vue and src/unnamed/part_000), as one
\* state machine.  `component` selects which of the two is mounted.
EXTENDS Integers, Sequences, FiniteSets, TLC

\* ------------------------------------------------------------------ bounds
\* Largest number of files in one selection.
MaxFiles == 7
\* Reorders are explored up to MaxMoves adjacent exchanges away from the
\* arrival order of the tiles.
MaxMoves == 3
\* Largest number of won checks explored between two level changes.
MaxWins == 1
\* A reorder gesture or a won check is explored with no timer running or with
\* at most MaxActTime seconds left.
MaxActTime == 1
\* The player acts on an ingestion in flight (reorders, checks, starts the
\* preset round) only when at most MaxOverlap of its files are still to be
\* processed, and reorders its tiles at most MaxOverlap exchanges away from
\* their arrival order; a file that does not hang is processed before the
\* round's timer has run MaxLoadTicks callbacks.
MaxOverlap == 1
MaxLoadTicks == 1
\* Wall-clock readings: `new Date()` lies in DateNow .. DateNow + MaxClock.
DateNow == 20240101
MaxClock == 1
\* Batch sizes compared with one-at-a-time processing: 1..MaxBatchSize.
MaxBatchSize == 3

\* ------------------------------------------------------------------ data
Null == "null"
\* The JavaScript value undefined, as an element of the store.
Undefined == [undefined |-> TRUE]
FileList == "FileList"

PhotoTimeline == "PhotoTimeline"
SeasonTimeline == "SeasonTimeline"
Components == {PhotoTimeline, SeasonTimeline}

levels ==
  << [requiredPhotos |-> 3, timeLimit |-> 60, points |-> 100],
     [requiredPhotos |-> 4, timeLimit |-> 50, points |-> 200],
     [requiredPhotos |-> 5, timeLimit |-> 45, points |-> 300],
     [requiredPhotos |-> 6, timeLimit |-> 40, points |-> 400],
     [requiredPhotos |-> 7, timeLimit |-> 35, points |-> 500] >>

\* seasonImages with the Winter image listed second.
seasonImages_WinterSecond ==
  << [season |-> "Fruehling", date |-> 20230321],
     [season |-> "Winter",   date |-> 20231221],
     [season |-> "Sommer",   date |-> 20230621],
     [season |-> "Herbst",   date |-> 20230921] >>

\* Capture dates are day stamps yyyymmdd.
seasonImages ==
  << [season |-> "Winter",   date |-> 20231221],
     [season |-> "Fruehling", date |-> 20230321],
     [season |-> "Sommer",   date |-> 20230621],
     [season |-> "Herbst",   date |-> 20230921] >>

\* levels[currentLevel.value] (the array is 0-based in the source).
LevelAt(index) == levels[index + 1]

\* ------------------------------------------------------------------ files
\* A selected file: its MIME class, what exifr.parse does with it
\* ("ok": DateTimeOriginal = date, "none": no such tag, "throws"), and whether
\* the Image built from it ever fires onload ("ok") or never does ("hang").
GoodFile(d) == [image |-> TRUE, exif |-> "ok", date |-> d, thumb |-> "ok"]
NoExifFile == [image |-> TRUE, exif |-> "none", date |-> 0, thumb |-> "ok"]
ExifThrowsFile == [image |-> TRUE, exif |-> "throws", date |-> 0, thumb |-> "ok"]
BrokenFile == [image |-> TRUE, exif |-> "none", date |-> 0, thumb |-> "hang"]
TextFile == [image |-> FALSE, exif |-> "none", date |-> 0, thumb |-> "hang"]

PlainFile == GoodFile(20230101)
LaterFile == GoodFile(20230102)

UniformBatch(n) == [i \in 1..n |-> PlainFile]

\* The selections the player makes: n plain files, or plain files with one
\* odd file among them.
Batches ==
  {UniformBatch(n) : n \in 1..MaxFiles}
    \cup { << PlainFile, LaterFile, PlainFile >>,
           << NoExifFile, PlainFile, PlainFile >>,
           << PlainFile, ExifThrowsFile, PlainFile >>,
           << PlainFile, PlainFile, BrokenFile >>,
           << TextFile, PlainFile, PlainFile, PlainFile >>,
           << PlainFile, PlainFile, PlainFile, LaterFile >> }

\* ------------------------------------------------------------------ state
VARIABLES
  component,          \* which of the two components is mounted
  photos,             \* photos.value: sequence of [id, date]
  isLoading, currentLevel, score, timeLeft, gameStarted,
  timerInterval,      \* timerInterval.value: 0 is null, else an interval handle
  selectedFiles,      \* selectedFiles.value: Null or FileList (its files are
                      \* read only by the handler that stores it)
  showLevelComplete, levelScore, timeBonus, gameMode,
  activeTimers,       \* the interval handles the browser still fires
  load,               \* the asynchronous ingestion in flight, if any
  ticks,              \* callbacks run by the interval of the last startTimer
  timeouts,           \* of these, the ones that took the timeout branch
                      \* (both are 0 again once a check request ends the round)
  wins,               \* checks won since the level was entered
  orphanUrls          \* some object URL made by URL.createObjectURL is
                      \* neither revoked nor the url of a photo of the store
                      \* or of a file whose processing will still end

vars ==
  << component, photos, isLoading, currentLevel, score, timeLeft, gameStarted,
     timerInterval, selectedFiles, showLevelComplete, levelScore, timeBonus,
     gameMode, activeTimers, load, ticks, timeouts, wins, orphanUrls >>

currentLevelData == LevelAt(currentLevel)

\* load: queue holds the files of the round not yet processed, produced counts
\* the photos pushed, now is the last clock reading.
NoLoad == [active |-> FALSE, queue |-> << >>, produced |-> 0, now |-> 0]

Init ==
  /\ component \in Components
  /\ photos = << >>
  /\ isLoading = FALSE
  /\ currentLevel = 0
  /\ score = 0
  /\ timeLeft = 0
  /\ gameStarted = FALSE
  /\ timerInterval = 0
  /\ selectedFiles = Null
  /\ showLevelComplete = FALSE
  /\ levelScore = 0
  /\ timeBonus = 0
  /\ gameMode = "custom"
  /\ activeTimers = {}
  /\ load = NoLoad
  /\ ticks = 0
  /\ timeouts = 0
  /\ wins = 0
  /\ orphanUrls = FALSE

\* ------------------------------------------------------------------ timer
\* clearInterval that cancels nothing.
ClearInterval_Noop(timers) == timers

\* clearInterval(timerInterval.value) applied to the set of live intervals.
ClearInterval(timers) == timers \ {timerInterval}

\* The handle setInterval returns: the least one that names no live interval
\* (handles are only ever compared with each other).
NewHandle(timers) ==
  CHOOSE h \in 1..(Cardinality(timers) + 1) :
    /\ h \notin timers
    /\ \A g \in 1..(h - 1) : g \in timers

\* startTimer always loading the first level's time limit.
startTimer_FirstLevelLimit ==
  LET cleared == IF timerInterval # 0 THEN ClearInterval(activeTimers)
                 ELSE activeTimers
      h == NewHandle(cleared)
  IN /\ timeLeft' = LevelAt(0).timeLimit
     /\ timerInterval' = h
     /\ activeTimers' = cleared \cup {h}
     /\ ticks' = 0
     /\ timeouts' = 0

startTimer ==
  LET cleared == IF timerInterval # 0 THEN ClearInterval(activeTimers)
                 ELSE activeTimers
      h == NewHandle(cleared)
  IN /\ timeLeft' = currentLevelData.timeLimit
     /\ timerInterval' = h
     /\ activeTimers' = cleared \cup {h}
     /\ ticks' = 0
     /\ timeouts' = 0

\* resetLevel() without its clearInterval.
resetLevel_NoClear(timers) ==
  /\ photos' = << >>
  /\ activeTimers' = timers
  /\ timeLeft' = 0
  /\ gameStarted' = FALSE
  /\ showLevelComplete' = FALSE
  /\ selectedFiles' = Null

\* resetLevel(), run when the live intervals are `timers`.
resetLevel(timers) ==
  /\ photos' = << >>
  /\ activeTimers' = IF timerInterval # 0 THEN ClearInterval(timers) ELSE timers
  /\ timeLeft' = 0
  /\ gameStarted' = FALSE
  /\ showLevelComplete' = FALSE
  /\ selectedFiles' = Null

\* The promise of the file's preview never settles: no onerror handler.
Hangs(file) == file.exif # "throws" /\ file.thumb = "hang"

BATCH_SIZE == 2

\* The ingestion in flight is waiting for a file that will be processed.
LoadPending ==
  /\ load.active
  /\ IF component = SeasonTimeline
     THEN ~Hangs(load.queue[1])
     ELSE \A i \in 1..Len(load.queue) : i <= BATCH_SIZE => ~Hangs(load.queue[i])

\* The file, or a file of the batch, that the ingestion processes first in
\* queue q never finishes: the object URL created for it is never revoked.
HeadHangs(q) ==
  \E i \in 1..Len(q) :
    /\ i <= (IF component = SeasonTimeline THEN 1 ELSE BATCH_SIZE)
    /\ Hangs(q[i])

\* The url of a photo is an object URL: a photo ingested by SeasonTimeline
\* (PhotoTimeline stores data URLs, the preset photos static ones).
HasObjectUrl(photo) ==
  /\ component = SeasonTimeline
  /\ photo # Undefined
  /\ photo.id >= DateNow

\* The store s holds an object URL; the store new has lost one that old held.
HoldsUrl(s) == \E i \in 1..Len(s) : HasObjectUrl(s[i])
LosesUrl(old, new) ==
  \E i \in 1..Len(old) :
    /\ HasObjectUrl(old[i])
    /\ \A k \in 1..Len(new) : new[k] # old[i]

\* The callback that does nothing once timeLeft is 0.
Tick_NoTimeout(h) ==
  /\ h \in activeTimers
  /\ LoadPending => ticks < MaxLoadTicks
  /\ ticks' = ticks + 1
  /\ IF timeLeft > 0
     THEN /\ timeLeft' = timeLeft - 1
          /\ UNCHANGED << photos, gameStarted, activeTimers, showLevelComplete,
                          selectedFiles, timeouts >>
     ELSE UNCHANGED << photos, gameStarted, activeTimers, showLevelComplete,
                       selectedFiles, timeouts, timeLeft >>
  /\ UNCHANGED << component, isLoading, currentLevel, score, timerInterval,
                  levelScore, timeBonus, gameMode, load, wins,
                  orphanUrls >>

\* The callback with its test written timeLeft >= 0.
Tick_OffByOne(h) ==
  /\ h \in activeTimers
  /\ LoadPending => ticks < MaxLoadTicks
  /\ ticks' = ticks + 1
  /\ IF timeLeft >= 0
     THEN /\ timeLeft' = timeLeft - 1
          /\ UNCHANGED << photos, gameStarted, activeTimers, showLevelComplete,
                          selectedFiles, timeouts >>
     ELSE /\ timeouts' = timeouts + 1
          /\ resetLevel(ClearInterval(activeTimers))
  /\ UNCHANGED << component, isLoading, currentLevel, score, timerInterval,
                  levelScore, timeBonus, gameMode, load, wins,
                  orphanUrls >>

\* The callback whose timeout branch stops the interval and resets nothing.
Tick_NoReset(h) ==
  /\ h \in activeTimers
  /\ LoadPending => ticks < MaxLoadTicks
  /\ ticks' = ticks + 1
  /\ IF timeLeft > 0
     THEN /\ timeLeft' = timeLeft - 1
          /\ UNCHANGED << photos, gameStarted, activeTimers, showLevelComplete,
                          selectedFiles, timeouts >>
     ELSE /\ timeouts' = timeouts + 1
          /\ activeTimers' = ClearInterval(activeTimers)
          /\ UNCHANGED << photos, gameStarted, timeLeft, showLevelComplete,
                          selectedFiles >>
  /\ UNCHANGED << component, isLoading, currentLevel, score, timerInterval,
                  levelScore, timeBonus, gameMode, load, wins,
                  orphanUrls >>

\* One run of the setInterval callback of the live interval h.
Tick(h) ==
  /\ h \in activeTimers
  /\ LoadPending => ticks < MaxLoadTicks
  /\ ticks' = ticks + 1
  /\ IF timeLeft > 0
     THEN /\ timeLeft' = timeLeft - 1
          /\ UNCHANGED << photos, gameStarted, activeTimers, showLevelComplete,
                          selectedFiles, timeouts >>
     ELSE /\ timeouts' = timeouts + 1
          /\ resetLevel(ClearInterval(activeTimers))
  /\ UNCHANGED << component, isLoading, currentLevel, score, timerInterval,
                  levelScore, timeBonus, gameMode, load, wins,
                  orphanUrls >>

\* ------------------------------------------------------------------ reorder
\* The level-complete overlay (fixed inset-0, z-50) covers every control but
\* its own button for as long as showLevelComplete holds.
ControlsReachable == ~showLevelComplete

\* Tiles arrive in ascending id order: the number of adjacent exchanges that
\* separate s from the arrival order.
Inversions(s) ==
  Cardinality({pair \in (1..Len(s)) \X (1..Len(s)) :
                 /\ pair[1] < pair[2]
                 /\ s[pair[1]] # Undefined
                 /\ s[pair[2]] # Undefined
                 /\ s[pair[1]].id > s[pair[2]].id})

OverlapExplored == Len(load.queue) <= MaxOverlap

GestureExplored ==
  /\ OverlapExplored
  /\ activeTimers = {} \/ timeLeft <= MaxActTime

ReorderExplored(s) ==
  Inversions(s) <= IF load.active THEN MaxOverlap ELSE MaxMoves

\* photos.value[k] read and written as JavaScript does (positions 1-based
\* here): a read outside the array yields undefined; a write beyond the end
\* extends the array, the skipped positions reading undefined; a write at a
\* negative index sets a property of the object and no element.
At(s, i) == IF i \in 1..Len(s) THEN s[i] ELSE Undefined
Put(s, i, v) ==
  IF i < 1 THEN s
  ELSE [k \in 1..(IF i > Len(s) THEN i ELSE Len(s)) |->
          IF k = i THEN v ELSE At(s, k)]

\* const temp = photos[i]; photos[i] = photos[j]; photos[j] = temp
Swap(s, i, j) ==
  LET temp == At(s, i)
  IN Put(Put(s, i, At(s, j)), j, temp)

\* movePhotoLeft with the first tile wrapping around to the end.
movePhotoLeft_Wraps(index) ==
  /\ ControlsReachable
  /\ GestureExplored
  /\ photos' = IF index > 0 THEN Swap(photos, index + 1, index)
               ELSE Swap(photos, 1, Len(photos))
  /\ ReorderExplored(photos')
  /\ orphanUrls' = (orphanUrls \/ LosesUrl(photos, photos'))
  /\ UNCHANGED << component, isLoading, currentLevel, score, timeLeft,
                  gameStarted, timerInterval, selectedFiles, showLevelComplete,
                  levelScore, timeBonus, gameMode, activeTimers, load, ticks,
                  timeouts, wins >>

\* movePhotoLeft(index), index 0-based as in the source.
movePhotoLeft(index) ==
  /\ ControlsReachable
  /\ GestureExplored
  /\ photos' = IF index > 0 THEN Swap(photos, index + 1, index) ELSE photos
  /\ ReorderExplored(photos')
  /\ orphanUrls' = (orphanUrls \/ LosesUrl(photos, photos'))
  /\ UNCHANGED << component, isLoading, currentLevel, score, timeLeft,
                  gameStarted, timerInterval, selectedFiles, showLevelComplete,
                  levelScore, timeBonus, gameMode, activeTimers, load, ticks,
                  timeouts, wins >>

\* movePhotoRight copying the right neighbour over the tile instead of
\* exchanging the two.
movePhotoRight_Overwrites(index) ==
  /\ ControlsReachable
  /\ GestureExplored
  /\ photos' = IF index < Len(photos) - 1
               THEN Put(photos, index + 1, At(photos, index + 2)) ELSE photos
  /\ ReorderExplored(photos')
  /\ orphanUrls' = (orphanUrls \/ LosesUrl(photos, photos'))
  /\ UNCHANGED << component, isLoading, currentLevel, score, timeLeft,
                  gameStarted, timerInterval, selectedFiles, showLevelComplete,
                  levelScore, timeBonus, gameMode, activeTimers, load, ticks,
                  timeouts, wins >>

movePhotoRight(index) ==
  /\ ControlsReachable
  /\ GestureExplored
  /\ photos' = IF index < Len(photos) - 1
               THEN Swap(photos, index + 1, index + 2) ELSE photos
  /\ ReorderExplored(photos')
  /\ orphanUrls' = (orphanUrls \/ LosesUrl(photos, photos'))
  /\ UNCHANGED << component, isLoading, currentLevel, score, timeLeft,
                  gameStarted, timerInterval, selectedFiles, showLevelComplete,
                  levelScore, timeBonus, gameMode, activeTimers, load, ticks,
                  timeouts, wins >>

\* The list <draggable> writes to photos when the tile at position from is
\* dropped at position to (1-based): the tile is removed and inserted there.
Dragged(s, from, to) ==
  LET rest == [k \in 1..(Len(s) - 1) |-> IF k < from THEN s[k] ELSE s[k + 1]]
  IN [k \in 1..Len(s) |->
        IF k < to THEN rest[k] ELSE IF k = to THEN s[from] ELSE rest[k - 1]]

\* v-model="photos" of <draggable>: the list the component emits is assigned
\* to photos as it comes.
updateModelValue(order) ==
  /\ ControlsReachable
  /\ GestureExplored
  /\ photos' = order
  /\ ReorderExplored(photos')
  /\ orphanUrls' = (orphanUrls \/ LosesUrl(photos, photos'))
  /\ UNCHANGED << component, isLoading, currentLevel, score, timeLeft,
                  gameStarted, timerInterval, selectedFiles, showLevelComplete,
                  levelScore, timeBonus, gameMode, activeTimers, load, ticks,
                  timeouts, wins >>

\* One drag gesture.
Drag(from, to) ==
  /\ from # to
  /\ updateModelValue(Dragged(photos, from, to))

\* ------------------------------------------------------------------ check
\* The comparison of checkOrder made strict.
IsCorrect_Strict(s) ==
  \A index \in 0..(Len(s) - 1) :
    IF index = 0 THEN TRUE ELSE s[index + 1].date > s[index].date

\* photos.value.every((photo, index) => index === 0 || photo.date >= previous date)
IsCorrect(s) ==
  \A index \in 0..(Len(s) - 1) :
    IF index = 0 THEN TRUE ELSE s[index + 1].date >= s[index].date

\* The bonus without its factor 2.
TimeBonus_Unscaled(t) == (t * 1) \div 1

\* Math.floor(timeLeft * 2) and points + timeBonus.
TimeBonus(t) == (t * 2) \div 1
LevelScore(level, t) == level.points + TimeBonus(t)

\* The check button is rendered (v-if) by PhotoTimeline when the store holds
\* exactly the level's number of photos, by SeasonTimeline when it holds any.
CheckButtonShown ==
  IF component = PhotoTimeline
  THEN Len(photos) = currentLevelData.requiredPhotos
  ELSE Len(photos) > 0

checkOrder ==
  /\ ControlsReachable
  /\ CheckButtonShown
  /\ OverlapExplored
  /\ IF IsCorrect(photos)
     THEN /\ GestureExplored
          /\ wins < MaxWins
          /\ wins' = wins + 1
          /\ timeBonus' = TimeBonus(timeLeft)
          /\ levelScore' = LevelScore(currentLevelData, timeLeft)
          /\ score' = score + levelScore'
          /\ activeTimers' = ClearInterval(activeTimers)
          /\ showLevelComplete' = TRUE
          /\ UNCHANGED << photos, timeLeft, gameStarted, selectedFiles >>
     ELSE /\ resetLevel(activeTimers)
          /\ UNCHANGED << timeBonus, levelScore, score, wins >>
  /\ ticks' = 0
  /\ timeouts' = 0
  /\ UNCHANGED << component, isLoading, currentLevel, timerInterval, gameMode,
                  load, orphanUrls >>

\* ------------------------------------------------------------------ levels
\* nextLevel incrementing at the last level too.
nextLevel_NoWrap ==
  /\ showLevelComplete
  /\ currentLevel' = currentLevel + 1
  /\ score' = score
  /\ resetLevel(activeTimers)
  /\ showLevelComplete' = FALSE
  /\ ticks' = 0
  /\ timeouts' = 0
  /\ wins' = 0
  /\ UNCHANGED << component, isLoading, timerInterval, levelScore, timeBonus,
                  gameMode, load, orphanUrls >>

\* nextLevel stepping over a level.
nextLevel_Skips ==
  /\ showLevelComplete
  /\ IF currentLevel < Len(levels) - 2
     THEN /\ currentLevel' = currentLevel + 2
          /\ score' = score
          /\ resetLevel(activeTimers)
     ELSE /\ currentLevel' = 0
          /\ score' = 0
          /\ resetLevel(activeTimers)
  /\ showLevelComplete' = FALSE
  /\ ticks' = 0
  /\ timeouts' = 0
  /\ wins' = 0
  /\ UNCHANGED << component, isLoading, timerInterval, levelScore, timeBonus,
                  gameMode, load, orphanUrls >>

\* nextLevel with the campaign score carried over the last level.
nextLevel_KeepsScore ==
  /\ showLevelComplete
  /\ IF currentLevel < Len(levels) - 1
     THEN /\ currentLevel' = currentLevel + 1
          /\ score' = score
          /\ resetLevel(activeTimers)
     ELSE /\ currentLevel' = 0
          /\ score' = score
          /\ resetLevel(activeTimers)
  /\ showLevelComplete' = FALSE
  /\ ticks' = 0
  /\ timeouts' = 0
  /\ wins' = 0
  /\ UNCHANGED << component, isLoading, timerInterval, levelScore, timeBonus,
                  gameMode, load, orphanUrls >>

nextLevel ==
  /\ showLevelComplete
  /\ IF currentLevel < Len(levels) - 1
     THEN /\ currentLevel' = currentLevel + 1
          /\ score' = score
          /\ resetLevel(activeTimers)
          \* PhotoTimeline then calls loadPhotosForCurrentLevel(), which returns
          \* at its first line (if (!selectedFiles.value) return): resetLevel
          \* has just set selectedFiles to null.  SeasonTimeline makes no call.
          /\ component = PhotoTimeline => selectedFiles' = Null
     ELSE /\ currentLevel' = 0
          /\ score' = 0
          /\ resetLevel(activeTimers)
  /\ showLevelComplete' = FALSE
  /\ ticks' = 0
  /\ timeouts' = 0
  /\ wins' = 0
  /\ UNCHANGED << component, isLoading, timerInterval, levelScore, timeBonus,
                  gameMode, load, orphanUrls >>

\* ------------------------------------------------------------------ preset mode
SeasonPhotos ==
  [index \in 1..Len(seasonImages) |->
     [id |-> index - 1, date |-> seasonImages[index].date]]

startSeasonMode ==
  /\ component = SeasonTimeline
  /\ ControlsReachable
  /\ ~gameStarted
  /\ OverlapExplored
  /\ gameMode' = "seasons"
  /\ photos' = SeasonPhotos
  /\ gameStarted' = TRUE
  /\ startTimer
  /\ orphanUrls' = (orphanUrls \/ HoldsUrl(photos))
  /\ UNCHANGED << component, isLoading, currentLevel, score, selectedFiles,
                  showLevelComplete, levelScore, timeBonus, load, wins >>

\* ------------------------------------------------------------------ ingestion
Min(a, b) == IF a < b THEN a ELSE b
MaxOf(S) == CHOOSE m \in S : \A x \in S : x <= m
Range(s) == {s[i] : i \in 1..Len(s)}
Count(s, x) == Cardinality({i \in 1..Len(s) : s[i] = x})

\* Date.now() + Math.random(): a number no tile of the store s has as its id
\* (ids are only ever compared with each other).
PhotoId(s) ==
  DateNow + CHOOSE k \in 0..Len(s) :
              /\ \A i \in 1..Len(s) : s[i].id # DateNow + k
              /\ \A j \in 0..(k - 1) : \E i \in 1..Len(s) : s[i].id = DateNow + j

\* exifData?.DateTimeOriginal || new Date(), the clock reading being DateNow + n.
CaptureDate(file, n) == IF file.exif = "ok" THEN file.date ELSE DateNow + n

\* The end of an ingestion with the start condition not testing gameStarted.
finishLoading_NoGuard(p) ==
  /\ photos' = p
  /\ isLoading' = FALSE
  /\ load' = NoLoad
  /\ IF Len(p) = currentLevelData.requiredPhotos
     THEN /\ gameStarted' = TRUE
          /\ startTimer
     ELSE UNCHANGED << gameStarted, timeLeft, timerInterval, activeTimers, ticks,
                      timeouts >>

\* The end of an ingestion whose last push leaves the store at p: the start
\* condition of the round, then the finally block.
finishLoading(p) ==
  /\ photos' = p
  /\ isLoading' = FALSE
  /\ load' = NoLoad
  /\ IF Len(p) = currentLevelData.requiredPhotos /\ ~gameStarted
     THEN /\ gameStarted' = TRUE
          /\ startTimer
     ELSE UNCHANGED << gameStarted, timeLeft, timerInterval, activeTimers, ticks,
                      timeouts >>

\* SeasonTimeline: handleFileSelect up to its first await.
handleFileSelect(batch) ==
  /\ component = SeasonTimeline
  /\ ControlsReachable
  /\ ~gameStarted
  /\ ~isLoading
  /\ isLoading' = TRUE
  /\ photos' = << >>
  /\ load' = [active |-> TRUE,
              queue |-> SubSeq(batch, 1, Min(Len(batch), currentLevelData.requiredPhotos)),
              produced |-> 0, now |-> 0]
  /\ orphanUrls' = (orphanUrls \/ HoldsUrl(photos) \/ HeadHangs(load'.queue))
  /\ UNCHANGED << component, currentLevel, score, timeLeft, gameStarted,
                  timerInterval, selectedFiles, showLevelComplete, levelScore,
                  timeBonus, gameMode, activeTimers, ticks, timeouts, wins >>

\* SeasonTimeline: one iteration of the for loop of handleFileSelect, and what
\* follows the loop when it was the last one.
processFile ==
  /\ component = SeasonTimeline
  /\ load.active
  /\ ~Hangs(Head(load.queue))
  /\ LET file == Head(load.queue)
         rest == Tail(load.queue)
     IN \E n \in load.now..MaxClock :
          /\ file.exif # "none" => n = load.now
          /\ LET pushed == file.exif # "throws"
                 p == IF pushed
                      THEN Append(photos, [id |-> PhotoId(photos),
                                           date |-> CaptureDate(file, n)])
                      ELSE photos
                 produced == IF pushed THEN load.produced + 1 ELSE load.produced
             IN IF rest = << >>
                THEN finishLoading(p)
                ELSE /\ photos' = p
                     /\ load' = [load EXCEPT !.queue = rest,
                                             !.produced = produced, !.now = n]
                     /\ UNCHANGED << isLoading, gameStarted, timeLeft,
                                     timerInterval, activeTimers, ticks, timeouts >>
  /\ orphanUrls' = (\/ orphanUrls
                    \/ Head(load.queue).exif = "throws"
                    \/ HeadHangs(Tail(load.queue)))
  /\ UNCHANGED << component, currentLevel, score, selectedFiles,
                  showLevelComplete, levelScore, timeBonus, gameMode, wins >>

\* PhotoTimeline: files.filter(image).sort(() => Math.random() - 0.5)
\*   .slice(0, requiredPhotos): the first m files of some reordering of the
\* image files.
IsImage(file) == file.image
ShuffledSlices(files, m) ==
  LET images == SelectSeq(files, IsImage)
      k == Min(Len(images), m)
  IN {s \in [1..k -> Range(images)] :
        \A f \in Range(images) : Count(s, f) <= Count(images, f)}

\* PhotoTimeline: handleFolderSelect and loadPhotosForCurrentLevel up to the
\* first await; with no image file there is no await at all.
handleFolderSelect(batch) ==
  /\ component = PhotoTimeline
  /\ ControlsReachable
  /\ ~gameStarted
  /\ ~isLoading
  /\ selectedFiles' = FileList
  /\ \E levelFiles \in ShuffledSlices(batch, currentLevelData.requiredPhotos) :
       IF levelFiles = << >>
       THEN finishLoading(<< >>)
       ELSE /\ isLoading' = TRUE
            /\ photos' = << >>
            /\ load' = [active |-> TRUE, queue |-> levelFiles,
                        produced |-> 0, now |-> 0]
            /\ UNCHANGED << gameStarted, timeLeft, timerInterval, activeTimers,
                            ticks, timeouts >>
  /\ orphanUrls' = (orphanUrls \/ HeadHangs(load'.queue))
  /\ UNCHANGED << component, currentLevel, score, showLevelComplete, levelScore,
                  timeBonus, gameMode, wins >>

\* The photos of one batch, in batch order, file i read the clock at ns[i];
\* a file whose EXIF parse throws yields null and is filtered out.
BatchPhotos(store, batch, ns) ==
  LET Build[i \in 0..Len(batch)] ==
        IF i = 0 THEN << >>
        ELSE IF batch[i].exif = "throws" THEN Build[i - 1]
        ELSE Append(Build[i - 1],
                    [id |-> PhotoId(store \o Build[i - 1]),
                     date |-> CaptureDate(batch[i], ns[i])])
  IN Build[Len(batch)]

\* PhotoTimeline: one iteration of the batch loop (Promise.all over up to
\* BATCH_SIZE files, then one push), and what follows the loop after the last.
processBatch ==
  /\ component = PhotoTimeline
  /\ load.active
  /\ LET size == Min(BATCH_SIZE, Len(load.queue))
         batch == SubSeq(load.queue, 1, size)
         rest == SubSeq(load.queue, size + 1, Len(load.queue))
     IN /\ \A i \in 1..size : ~Hangs(batch[i])
        /\ \E ns \in [1..size -> load.now..MaxClock] :
             /\ \A i \in 1..size : batch[i].exif # "none" => ns[i] = load.now
             /\ LET new == BatchPhotos(photos, batch, ns)
                    p == photos \o new
                    produced == load.produced + Len(new)
                IN IF rest = << >>
                   THEN finishLoading(p)
                   ELSE /\ photos' = p
                        /\ load' = [load EXCEPT !.queue = rest,
                                                !.produced = produced,
                                                !.now = MaxOf(Range(ns))]
                        /\ UNCHANGED << isLoading, gameStarted, timeLeft,
                                        timerInterval, activeTimers, ticks,
                                        timeouts >>
  /\ orphanUrls' = (orphanUrls \/ HeadHangs(load'.queue))
  /\ UNCHANGED << component, currentLevel, score, selectedFiles,
                  showLevelComplete, levelScore, timeBonus, gameMode, wins >>

\* The files whose photos reach the store, in arrival order, when the files
\* of q are processed one at a time (the for loop of handleFileSelect), and
\* when they are processed in batches of `size` (the loop of
\* loadPhotosForCurrentLevel: Promise.all over a batch, then one push).  A
\* file whose EXIF parse throws is skipped; a file that hangs stops the loop.
Pushed(file) == file.exif # "throws"

RECURSIVE SequentialFiles(_)
SequentialFiles(q) ==
  IF q = << >> \/ Hangs(Head(q)) THEN << >>
  ELSE SelectSeq(<< Head(q) >>, Pushed) \o SequentialFiles(Tail(q))

RECURSIVE BatchedFiles(_, _)
BatchedFiles(q, size) ==
  IF q = << >> THEN << >>
  ELSE LET n == Min(size, Len(q))
           batch == SubSeq(q, 1, n)
       IN IF \E i \in 1..n : Hangs(batch[i]) THEN << >>
          ELSE SelectSeq(batch, Pushed)
                 \o BatchedFiles(SubSeq(q, n + 1, Len(q)), size)

\* ------------------------------------------------------------------ system
Handles == 1..2

Next ==
  \/ \E h \in Handles : Tick(h)
  \/ \E index \in 0..(Len(photos) - 1) : movePhotoLeft(index)
  \/ \E index \in 0..(Len(photos) - 1) : movePhotoRight(index)
  \/ \E from, to \in 1..Len(photos) : Drag(from, to)
  \/ checkOrder
  \/ nextLevel
  \/ startSeasonMode
  \/ \E batch \in Batches : handleFileSelect(batch)
  \/ processFile
  \/ \E batch \in Batches : handleFolderSelect(batch)
  \/ processBatch

Spec == Init /\ [][Next]_vars

\* The write interface of the store under lists the drag component is not
\* known to emit: the store with its last tile missing, and with its first
\* tile repeated in place of the second.  Such a list is written to a store
\* that holds the photos of a started round.
BadOrders(s) ==
  { SubSeq(s, 1, Len(s) - 1), [s EXCEPT ![2] = s[1]] }

writeAnyOrder ==
  /\ gameStarted
  /\ Len(photos) = currentLevelData.requiredPhotos
  /\ \A i, j \in 1..Len(photos) : i # j => photos[i].id # photos[j].id
  /\ \E order \in BadOrders(photos) : updateModelValue(order)

\* The rounds of the first level with such writes.
NextReplace ==
  \/ \E h \in Handles : Tick(h)
  \/ writeAnyOrder
  \/ checkOrder
  \/ startSeasonMode
  \/ \E batch \in Batches : handleFileSelect(batch)
  \/ processFile
  \/ \E batch \in Batches : handleFolderSelect(batch)
  \/ processBatch

SpecReplace == Init /\ [][NextReplace]_vars

\* A caller outside the template hands the move handlers the two indices next
\* to the valid range, -1 and photos.length.  A behaviour is followed up to
\* such a call that damages the store, and no further.
WellFormed(s) == \A i \in 1..Len(s) : s[i] # Undefined

callOutOfRange ==
  /\ WellFormed(photos)
  /\ \E index \in {-1, Len(photos)} :
       movePhotoLeft(index) \/ movePhotoRight(index)

\* The rounds of the first level with such calls.
NextMisuse ==
  \/ callOutOfRange
  \/ WellFormed(photos) /\ \E h \in Handles : Tick(h)
  \/ WellFormed(photos) /\ checkOrder
  \/ WellFormed(photos) /\ startSeasonMode
  \/ WellFormed(photos) /\ \E batch \in Batches : handleFileSelect(batch)
  \/ WellFormed(photos) /\ processFile
  \/ WellFormed(photos) /\ \E batch \in Batches : handleFolderSelect(batch)
  \/ WellFormed(photos) /\ processBatch

SpecMisuse == Init /\ [][NextMisuse]_vars

\* ------------------------------------------------------------------ properties
Dates(s) == [i \in 1..Len(s) |-> s[i].date]
DateSet(s) == {s[i].date : i \in 1..Len(s)}
DistinctDates(s) == \A i, j \in 1..Len(s) : i # j => s[i].date # s[j].date
EqualDates(s) == \A i, j \in 1..Len(s) : s[i].date = s[j].date
AdjacentOrdered(s) == \A i \in 1..(Len(s) - 1) : s[i].date <= s[i + 1].date

\* The elements of a finite set of integers in ascending order.
RECURSIVE SortAsc(_)
SortAsc(S) ==
  IF S = {} THEN << >>
  ELSE LET least == CHOOSE x \in S : \A y \in S : x <= y
       IN << least >> \o SortAsc(S \ {least})

\* A check request was accepted by this step.
Accepted == ~showLevelComplete /\ showLevelComplete'

\* C1: checkOrder accepts the sequence in the store exactly when every
\* adjacent pair (a, b) has b.date >= a.date; when the dates are pairwise
\* distinct it accepts iff the sequence is the dates sorted ascending, and it
\* accepts a sequence whose dates are all equal.
C1_CheckOrderAcceptsSorted ==
  [][checkOrder =>
       /\ Accepted <=> AdjacentOrdered(photos)
       /\ DistinctDates(photos) =>
            (Accepted <=> Dates(photos) = SortAsc(DateSet(photos)))
       /\ EqualDates(photos) => Accepted]_vars

\* A sequence of four distinct dates has been accepted.
C1_Witness ==
  /\ showLevelComplete
  /\ Len(photos) = 4
  /\ DistinctDates(photos)
  /\ Dates(photos) = SortAsc(DateSet(photos))

\* C2: a successful check at level L with t seconds left sets timeBonus to
\* floor(2 * t) and levelScore to L.points + timeBonus, adds exactly levelScore
\* to score and leaves currentLevel alone; points 300 and t = 20 give a bonus
\* of 40 and a level score of 340.
C2_ScoreOnSuccess ==
  [][(checkOrder /\ Accepted) =>
       /\ timeBonus' = 2 * timeLeft
       /\ levelScore' = currentLevelData.points + timeBonus'
       /\ score' = score + levelScore'
       /\ currentLevel' = currentLevel
       /\ LevelAt(2).points = 300
       /\ TimeBonus(20) = 40
       /\ LevelScore(LevelAt(2), 20) = 340]_vars

\* A round has been won with one second left.
C2_Witness ==
  /\ showLevelComplete
  /\ gameStarted
  /\ activeTimers = {}
  /\ timeLeft = 1
  /\ timeBonus = 2
  /\ levelScore = currentLevelData.points + 2
  /\ score >= levelScore

\* C3: a check request on an out-of-order sequence leaves score and
\* currentLevel unchanged, empties the store, cancels the timer, sets timeLeft
\* to 0 and ends the round (not started, no level-complete overlay).
C3_FailedCheckResets ==
  [][(checkOrder /\ ~AdjacentOrdered(photos)) =>
       /\ score' = score
       /\ currentLevel' = currentLevel
       /\ photos' = << >>
       /\ activeTimers' = {}
       /\ timeLeft' = 0
       /\ ~gameStarted'
       /\ ~showLevelComplete']_vars

\* The preset round was started and lost by a check, nothing else having
\* happened: no round was ever won and no timeout was taken.
C3_Witness ==
  /\ gameMode = "seasons"
  /\ photos = << >>
  /\ ~gameStarted
  /\ timerInterval # 0
  /\ activeTimers = {}
  /\ timeLeft = 0
  /\ ticks = 0
  /\ timeouts = 0
  /\ score = 0
  /\ levelScore = 0
  /\ currentLevel = 0

\* C4: while the interval started by startTimer with time limit T is live,
\* timeLeft is T minus the number of callbacks run and never negative, so it is
\* 0 after exactly T callbacks; callback T + 1 takes the timeout branch, which
\* kills the interval: one timeout, and never a second.
C4_TimerRunsOut ==
  /\ activeTimers # {} =>
       /\ timeouts = 0
       /\ timeLeft >= 0
       /\ timeLeft = currentLevelData.timeLimit - ticks
  /\ timeouts <= 1
  /\ timeouts = 1 =>
       /\ activeTimers = {}
       /\ timeLeft = 0
       /\ ticks = currentLevelData.timeLimit + 1

\* The timer has run out and taken its timeout.
C4_Witness ==
  /\ timeouts = 1
  /\ ticks = currentLevelData.timeLimit + 1
  /\ activeTimers = {}
  /\ timeLeft = 0
  /\ photos = << >>

\* The photos an ingestion has produced when its last step is being taken:
\* those counted so far and those the step pushes.
ProducedAtCompletion == load.produced + (Len(photos') - Len(photos))

\* C5: when a custom-mode ingestion completes, the round becomes Playing
\* (gameStarted set, timer started) if and only if the number of photos the
\* ingestion produced equals the level's requiredPhotos.
C5_StartsIffProducedRequired ==
  [][(load.active /\ ~load'.active) =>
       ((~gameStarted /\ gameStarted' /\ timerInterval' \in activeTimers')
          <=> ProducedAtCompletion = currentLevelData.requiredPhotos)]_vars

\* C6: whenever a round is Playing (started, its timer running) the store
\* holds exactly requiredPhotos photos of the current level.
C6_PlayingHoldsRequired ==
  (gameStarted /\ activeTimers # {}) =>
    Len(photos) = currentLevelData.requiredPhotos

\* C7: nextLevel at the last level of the catalog sets currentLevel to 0 and
\* score to 0 and leaves no active round: store empty, no interval live,
\* timeLeft 0, neither started nor showing the level-complete overlay.
C7_LastLevelWraps ==
  [][(nextLevel /\ currentLevel = Len(levels) - 1) =>
       /\ currentLevel' = 0
       /\ score' = 0
       /\ photos' = << >>
       /\ activeTimers' = {}
       /\ timeLeft' = 0
       /\ ~gameStarted'
       /\ ~showLevelComplete']_vars

\* PhotoTimeline has wrapped around: the level score of the last level is
\* still on display while the campaign is back at level 0 with no score.
C7_Witness ==
  /\ component = PhotoTimeline
  /\ currentLevel = 0
  /\ score = 0
  /\ levelScore >= LevelAt(Len(levels) - 1).points
  /\ photos = << >>
  /\ activeTimers = {}
  /\ ~gameStarted
  /\ ~showLevelComplete

\* C8: nextLevel at a level that is not the last increases currentLevel by
\* one, keeps score, and re-triggers the ingestion for the next level (the
\* session is loading afterwards).
C8_NextLevelReingests ==
  [][(nextLevel /\ currentLevel < Len(levels) - 1) =>
       /\ currentLevel' = currentLevel + 1
       /\ score' = score
       /\ isLoading'
       /\ load'.active]_vars

\* The tiles at positions i and i + 1 (1-based) have changed places and
\* nothing else has changed.
ExchangedAt(i) ==
  /\ photos' = [k \in 1..Len(photos) |->
                  IF k = i THEN photos[i + 1]
                  ELSE IF k = i + 1 THEN photos[i] ELSE photos[k]]
  /\ UNCHANGED << component, isLoading, currentLevel, score, timeLeft,
                  gameStarted, timerInterval, selectedFiles, showLevelComplete,
                  levelScore, timeBonus, gameMode, activeTimers, load, ticks,
                  timeouts, wins, orphanUrls >>

\* C9: movePhotoLeft(0) and movePhotoRight(length - 1) change nothing at all;
\* at every other position of the store a move exchanges exactly the two
\* adjacent tiles and changes nothing else.
C9_BoundaryMovesAreNoOps ==
  [][\A index \in 0..(Len(photos) - 1) :
       /\ movePhotoLeft(index) =>
            IF index = 0 THEN UNCHANGED vars ELSE ExchangedAt(index)
       /\ movePhotoRight(index) =>
            IF index = Len(photos) - 1 THEN UNCHANGED vars
            ELSE ExchangedAt(index + 1)]_vars

\* A running round whose tiles are one adjacent exchange away from their
\* arrival order.
C9_Witness ==
  /\ gameStarted
  /\ activeTimers # {}
  /\ Len(photos) >= 3
  /\ Inversions(photos) = 1

\* The ids of `order` are those of s, each as often as in s.
SameIds(order, s) ==
  /\ Len(order) = Len(s)
  /\ \A i \in 1..Len(s) :
       Cardinality({k \in 1..Len(order) : order[k].id = s[i].id})
         = Cardinality({k \in 1..Len(s) : s[k].id = s[i].id})

\* C10: a write of a whole new order that misses or repeats an id of the
\* store is rejected: the store is left as it was.
C10_BadOrderRejected ==
  [][\A order \in BadOrders(photos) :
       (updateModelValue(order) /\ ~SameIds(order, photos)) =>
         photos' = photos]_vars

\* The store holds the four preset photos and nothing else.
IsSeasonStore(s) ==
  /\ Len(s) = Len(SeasonPhotos)
  /\ {s[i] : i \in 1..Len(s)} = {SeasonPhotos[i] : i \in 1..Len(SeasonPhotos)}

\* s with the tiles at positions i and i + 1 exchanged.
SwapAt(s, i) == Swap(s, i, i + 1)

\* Some two adjacent exchanges put s into an order checkOrder accepts.
TwoSwapsSort(s) ==
  \E i, j \in 1..(Len(s) - 1) : IsCorrect(SwapAt(SwapAt(s, i), j))

\* C11 as stated: the order in which the preset round starts can be brought
\* into ascending date order by two adjacent swaps.
C11_TwoSwapsSortPreset ==
  (gameStarted /\ photos = SeasonPhotos) => TwoSwapsSort(photos)

\* C11 as amended: the preset order is sorted by three adjacent swaps (the
\* first tile moved right three times) and by no two; the preset store is
\* accepted only in that order, three exchanges away from the start order,
\* and the check then adds points + 2 * timeLeft to score.
C11_ThreeSwapsSortPreset ==
  [][(checkOrder /\ Accepted /\ IsSeasonStore(photos)) =>
       /\ ~TwoSwapsSort(SeasonPhotos)
       /\ photos = SwapAt(SwapAt(SwapAt(SeasonPhotos, 1), 2), 3)
       /\ Inversions(photos) = 3
       /\ score' = score + currentLevelData.points + 2 * timeLeft]_vars

\* The preset round has been won with one second left.
C11_Witness ==
  /\ showLevelComplete
  /\ gameMode = "seasons"
  /\ IsSeasonStore(photos)
  /\ Inversions(photos) = 3
  /\ timeLeft = 1
  /\ levelScore = currentLevelData.points + 2

\* The interval callback takes its timeout branch in this step.
TimeoutStep == timeLeft = 0 /\ \E h \in Handles : Tick(h)

\* What the failing branch of checkOrder does to the session.
FailedCheckEffect ==
  /\ resetLevel(activeTimers)
  /\ UNCHANGED << component, isLoading, currentLevel, score, timerInterval,
                  levelScore, timeBonus, gameMode, load, wins,
                  orphanUrls >>

\* C12: the timeout changes the session exactly as a failed check request in
\* the same state would: store emptied, interval cancelled, timeLeft 0, round
\* not started, score and currentLevel unchanged.
C12_TimeoutResetsLikeFailedCheck ==
  [][TimeoutStep =>
       /\ FailedCheckEffect
       /\ photos' = << >>
       /\ activeTimers' = {}
       /\ timeLeft' = 0
       /\ ~gameStarted'
       /\ score' = score
       /\ currentLevel' = currentLevel]_vars

\* The preset round has ended by timeout.
C12_Witness ==
  /\ timeouts = 1
  /\ gameMode = "seasons"
  /\ photos = << >>
  /\ ~gameStarted
  /\ timeLeft = 0
  /\ activeTimers = {}


\* C13: at most one interval is live at any time, and it is the one
\* timerInterval names: every start of a timer cancels the previous one.
C13_AtMostOneTimer ==
  /\ Cardinality(activeTimers) <= 1
  /\ activeTimers \subseteq {timerInterval}

\* A timer runs in a round that began after an earlier round's timer.
C13_Witness ==
  /\ component = PhotoTimeline
  /\ currentLevel = 1
  /\ gameStarted
  /\ activeTimers = {timerInterval}


\* A reorder request (move button or drag) is served in this step.
ReorderStep ==
  \/ \E index \in 0..(Len(photos) - 1) :
       movePhotoLeft(index) \/ movePhotoRight(index)
  \/ \E from, to \in 1..Len(photos) : Drag(from, to)

\* C14: a reorder request changes the store only while a round is being
\* played: never before a round, during ingestion, with too few photos loaded,
\* or after the round was won or lost.
C14_ReorderOnlyWhilePlaying ==
  [][(ReorderStep /\ photos' # photos) =>
       (gameStarted /\ ~isLoading /\ ~showLevelComplete)]_vars


\* C15: currentLevel changes only when the player continues from the
\* level-complete overlay, and then to the next index, or to 0 after the last
\* level; a failed check, a timeout and a reset leave it alone.
C15_LevelsInOrder ==
  [][currentLevel' # currentLevel =>
       /\ showLevelComplete
       /\ nextLevel
       /\ currentLevel' = IF currentLevel = Len(levels) - 1 THEN 0
                          ELSE currentLevel + 1]_vars

\* The third level has been reached and a round on it was lost.
C15_Witness ==
  /\ currentLevel = 2
  /\ ~showLevelComplete
  /\ timeouts = 1


\* One step of a custom-mode ingestion, and the files it processes.
IngestStep == processFile \/ processBatch
ProcessedNow ==
  SubSeq(load.queue, 1,
         IF component = SeasonTimeline THEN 1
         ELSE Min(BATCH_SIZE, Len(load.queue)))
PreviewOk(file) == file.thumb = "ok"

\* C16: a file whose metadata extraction fails (the parser throws or finds no
\* capture timestamp) is never dropped: every processed file whose preview can
\* be generated is pushed to the store, dated by the clock if extraction failed.
C16_ExifFailureKeepsPhoto ==
  [][IngestStep =>
       LET ok == SelectSeq(ProcessedNow, PreviewOk)
       IN /\ Len(photos') = Len(photos) + Len(ok)
          /\ \A k \in 1..Len(ok) :
               ok[k].exif # "ok" =>
                 photos'[Len(photos) + k].date \in DateNow..(DateNow + MaxClock)]_vars


\* C17: an ingestion in flight is never blocked: whatever the outcome of each
\* file, its next file (or batch) can be processed, a file whose preview
\* cannot be generated being dropped, so the loading flag returns to false.
C17_IngestionNeverBlocks ==
  isLoading => ENABLED IngestStep


\* The first m image-typed files of a selection, in the order supplied.
FirstImages(batch, m) ==
  LET images == SelectSeq(batch, IsImage)
  IN SubSeq(images, 1, Min(m, Len(images)))

\* C18: the files a custom selection hands to the ingestion are exactly the
\* first requiredPhotos image-typed files of the selection, in the order
\* supplied; a file of another type takes no slot.
C18_FirstImagesInOrder ==
  [][\A batch \in Batches :
       (handleFileSelect(batch) \/ handleFolderSelect(batch)) =>
         load'.queue = FirstImages(batch, currentLevelData.requiredPhotos)]_vars


\* C19: the round ends on the callback that brings timeLeft to 0: in no
\* reachable state is a round still being played, its timer live and a check
\* still able to win it, with timeLeft at 0.
C19_NoPlayingAtZero ==
  (gameStarted /\ activeTimers # {} /\ ~showLevelComplete) => timeLeft > 0


\* C20: the score grows only by a check request made while a round is being
\* played (started, timer live, not yet won): a check before the round has
\* started or after it was won awards nothing.
C20_ScoreOnlyWhilePlaying ==
  [][score' > score =>
       /\ checkOrder
       /\ gameStarted
       /\ activeTimers # {}
       /\ ~showLevelComplete]_vars


\* C21: an ingestion that ends while the round is already started does not
\* start it again: the timer is not restarted and timeLeft is not set back to
\* the level's time limit, even when the store then holds the required number
\* of photos.
C21_NoSecondStart ==
  [][(IngestStep /\ gameStarted) =>
       /\ timeLeft' = timeLeft
       /\ timerInterval' = timerInterval
       /\ activeTimers' = activeTimers
       /\ ticks' = ticks
       /\ gameStarted']_vars

\* An ingestion has ended in a started preset round, leaving the store at the
\* level's number of photos, after the round's timer had run.
C21_Witness ==
  /\ component = SeasonTimeline
  /\ gameStarted
  /\ gameMode = "seasons"
  /\ ~isLoading
  /\ ~load.active
  /\ Len(photos) = currentLevelData.requiredPhotos
  /\ Len(photos) > Len(SeasonPhotos)
  /\ SubSeq(photos, 1, Len(SeasonPhotos)) = SeasonPhotos
  /\ timeLeft < currentLevelData.timeLimit
  /\ activeTimers # {}


\* C22: while a custom ingestion is in flight only that ingestion writes the
\* store, and the preset round is not started: the store never comes to hold
\* preset photos together with ingested ones.
C22_IngestionOwnsStore ==
  [][load.active =>
       /\ photos' # photos => IngestStep
       /\ ~startSeasonMode]_vars


\* The store has lost photos of the custom ingestion still in flight: the
\* round was reset under it.
StaleIngestion ==
  /\ load.active
  /\ gameMode = "custom"
  /\ Len(photos) < load.produced

\* C23: what an ingestion produces after its round was reset is discarded: it
\* is not appended to the store and starts no round.
C23_StaleResultsDiscarded ==
  [][(StaleIngestion /\ IngestStep) =>
       /\ photos' = photos
       /\ gameStarted' = gameStarted
       /\ activeTimers' = activeTimers]_vars


\* C24: a move-left or move-right call with an index outside
\* 0 .. photos.length - 1 is rejected: the store is left as it was, with no
\* undefined entry, the same length and every photo still in it.
C24_OutOfRangeMoveRejected ==
  [][callOutOfRange => photos' = photos]_vars


\* A step that leaves a round or replaces the store: a failed check, the
\* timeout, the continue button, a new selection of files.
ExitStep ==
  \/ TimeoutStep
  \/ nextLevel
  \/ checkOrder /\ ~IsCorrect(photos)
  \/ \E batch \in Batches : handleFileSelect(batch) \/ handleFolderSelect(batch)

\* C25: after every exit from a round no interval is live and every object
\* URL created for a photo that is not in the store has been revoked, those of
\* photos whose processing failed included.
C25_ExitReleasesResources ==
  [][ExitStep => (activeTimers' = {} /\ ~orphanUrls')]_vars


\* C26: the files of an ingestion give the same photos in the same arrival
\* order whatever the batch size, and the same as when they are processed one
\* at a time.
C26_BatchSizeIrrelevant ==
  load.active =>
    \A size \in 1..MaxBatchSize :
      BatchedFiles(load.queue, size) = SequentialFiles(load.queue)


\* (timeLeft / currentLevelData.timeLimit) * 100, rounded down to a whole
\* percent.
progressPercentage == (timeLeft * 100) \div currentLevelData.timeLimit

\* C27: in every reachable state timeLeft lies between 0 and the time limit
\* of the current level, so the progress shown lies between 0 and 100 percent,
\* also after a change to a level with a shorter limit.
C27_TimeLeftWithinLimit ==
  /\ timeLeft \in 0..currentLevelData.timeLimit
  /\ progressPercentage \in 0..100

\* A round of the second level, whose limit is shorter than the first's, has
\* just started.
C27_Witness ==
  /\ currentLevel = 1
  /\ gameStarted
  /\ activeTimers # {}
  /\ timeLeft = currentLevelData.timeLimit
  /\ progressPercentage = 100


\* A move button at one of the positions of the store is served in this step.
MoveStep ==
  \E index \in 0..(Len(photos) - 1) :
    movePhotoLeft(index) \/ movePhotoRight(index)

\* t holds exactly the photos of s, each as often as s does, ids and capture
\* dates included.
IsPermutation(t, s) ==
  /\ Len(t) = Len(s)
  /\ \A i \in 1..Len(s) : Count(t, s[i]) = Count(s, s[i])

DistinctIds(s) == \A i, j \in 1..Len(s) : i # j => s[i].id # s[j].id

\* C28: a move-left or move-right at a valid position leaves the store a
\* permutation of what it held: same length, same ids, no id twice, every
\* photo with its capture date; hence so does any sequence of such moves.
\* (A move that leaves the store as it was has nothing to show.)
C28_MovesPermute ==
  [][(photos' # photos /\ MoveStep) =>
       /\ IsPermutation(photos', photos)
       /\ SameIds(photos', photos)
       /\ DistinctIds(photos) => DistinctIds(photos')
       /\ \A i \in 1..Len(photos') : photos'[i] # Undefined]_vars

\* Two moves into a round of PhotoTimeline.
C28_Witness ==
  /\ component = PhotoTimeline
  /\ gameStarted
  /\ ~showLevelComplete
  /\ Inversions(photos) = 2
  /\ DistinctIds(photos)
  /\ Len(photos) = currentLevelData.requiredPhotos


\* A round is being played.
Playing == gameStarted /\ ~showLevelComplete

\* C29: a round being played ends, given that the interval keeps firing: it
\* has a live interval whose callback can run, no step that leaves the round
\* in play takes back a callback already counted, whatever the player
\* reorders, and the round is over before the count exceeds the level's time
\* limit: callback timeLimit + 1 at the latest resets it, unless a check has
\* won or lost it before.
C29_RoundEnds ==
  /\ [](Playing =>
          /\ activeTimers # {}
          /\ ticks <= currentLevelData.timeLimit
          /\ LoadPending \/ ENABLED (\E h \in Handles : Tick(h)))
  /\ [][(Playing /\ Playing') =>
          /\ ticks' >= ticks
          /\ ticks' = ticks => timeLeft' = timeLeft
          /\ activeTimers' = activeTimers]_vars
  /\ [][(Playing /\ ticks = currentLevelData.timeLimit /\ ticks' # ticks) =>
          ~Playing']_vars

\* A round of the second level of PhotoTimeline was ended by callback
\* timeLimit + 1.
C29_Witness ==
  /\ component = PhotoTimeline
  /\ ~gameStarted
  /\ timeouts = 1
  /\ ticks = currentLevelData.timeLimit + 1
  /\ currentLevel = 1


\* C30: currentLevel always is an index of levels, so levels[currentLevel]
\* is defined in every reachable state; the continue button at the last index
\* sets it to 0 and at no index takes it past the last.
C30_LevelIndexInRange ==
  /\ [](/\ currentLevel \in 0..(Len(levels) - 1)
        /\ currentLevel + 1 \in DOMAIN levels)
  /\ [][nextLevel =>
          /\ currentLevel' \in 0..(Len(levels) - 1)
          /\ currentLevel = Len(levels) - 1 => currentLevel' = 0]_vars

\* SeasonTimeline has wrapped around and plays a round of the first level
\* again, with the first level's time on the clock.
C30_Witness ==
  /\ component = SeasonTimeline
  /\ currentLevel = 0
  /\ levelScore >= LevelAt(Len(levels) - 1).points
  /\ gameStarted
  /\ activeTimers # {}
  /\ timeLeft = LevelAt(0).timeLimit

====
